---- MODULE Spec2Model ----
(***************************************************************************)
(* Model of the Connect4 game engine of src/env.py (class Connect4).       *)
(*                                                                         *)
(* numpy arrays are objects: self.grid is a REFERENCE to an array, and the *)
(* value make_move returns is a reference too.  Two references matter: the *)
(* engine's (self.grid) and the one the caller got from the last           *)
(* successful make_move.  The model keeps                                  *)
(*   grid   the contents of the array self.grid refers to,                 *)
(*   ret    what the caller's reference points to: nothing yet ("None"),   *)
(*          the very array self.grid refers to ("self.grid"), or another   *)
(*          array ("other"),                                               *)
(*   other  the contents of that other array (all zeros while there is     *)
(*          none).                                                         *)
(* A write through either reference to the shared array is a write to      *)
(* grid; arrays that no reference reaches are not kept.                    *)
(*                                                                         *)
(* last is a history variable: it records the last call, its arguments,    *)
(* how it ended, what it returned and the contents of the stored board     *)
(* just before the call.                                                   *)
(*                                                                         *)
(* pc and A_s belong to the demo loop of the __main__ block: pc is the     *)
(* line the loop is at ("engine" when the engine is driven by any other    *)
(* caller) and A_s is the loop's variable A_s.                             *)
(***************************************************************************)
EXTENDS Integers, Sequences, FiniteSets, TLC

VARIABLES grid, ret, other, last, pc, A_s

vars == <<grid, ret, other, last, pc, A_s>>

(* Constructor parameters Connect4(n_rows, n_columns, win_streak).  The    *)
(* defaults of the source are 6, 7, 4; the model checks a smaller engine.  *)
n_rows == 2
n_columns == 3
win_streak == 2

Rows == 0 .. n_rows - 1
Cols == 0 .. n_columns - 1

(* Cell contents: 0 empty, 1 and 2 the two players' pieces. *)
Cells == {0, 1, 2}
Players == {1, 2}

(* The ids check_win is called with: the two players and the empty id. *)
PlayerIds == {0, 1, 2}

(* The column arguments make_move is called with: every valid index, the   *)
(* negative index -1, which numpy accepts, and the index one past the end. *)
ColumnArgs == (0 - 1) .. n_columns

(* What the caller's reference points to. *)
RetKinds == {"None", "self.grid", "other"}

(* np.zeros(shape=(n_rows, n_columns)) *)
Zeros == [r \in Rows |-> [c \in Cols |-> 0]]

Boards == [Rows -> [Cols -> Cells]]

(* The stored board: the contents of the array self.grid refers to. *)
Board == grid

(* The board the caller was handed by the last successful make_move. *)
Returned == IF ret = "self.grid" THEN grid ELSE other

(* numpy's index rule on an axis of length n: i in 0..n-1 is itself, i in  *)
(* -n..-1 counts from the end, anything else raises IndexError.            *)
InRange(i, n) == (0 - n) <= i /\ i < n

Index(i, n) == IF i < 0 THEN i + n ELSE i


(***************************************************************************)
(* Connect4.__init__: the four win kernels.                                *)
(***************************************************************************)
h_win_kernel == [i \in 0 .. 0 |-> [j \in 0 .. win_streak - 1 |-> 1]]

v_win_kernel == [i \in 0 .. win_streak - 1 |-> [j \in 0 .. 0 |-> 1]]

d1_win_kernel ==
    [i \in 0 .. win_streak - 1 |->
        [j \in 0 .. win_streak - 1 |-> IF j = i THEN 1 ELSE 0]]

d2_win_kernel ==
    [i \in 0 .. win_streak - 1 |->
        [j \in 0 .. win_streak - 1 |-> IF j = win_streak - i - 1 THEN 1 ELSE 0]]

(* Variant: the second diagonal kernel is built like the first. *)
win_kernels_NoD2 == <<h_win_kernel, v_win_kernel, d1_win_kernel, d1_win_kernel>>

win_kernels == <<h_win_kernel, v_win_kernel, d1_win_kernel, d2_win_kernel>>

(***************************************************************************)
(* Connect4.make_move                                                      *)
(***************************************************************************)

(* Variant: the full-column check never fires. *)
ColumnFull_Never(g, column) == FALSE

(* Variant: the check looks at column 0 whatever the column played. *)
ColumnFull_FirstColumn(g, column) == g[0][0] # 0

(* Line 73: the column is full when its top cell is not empty. *)
ColumnFull(g, column) == g[0][column] # 0

(* Variant: the piece does not fall, it stays in the row it enters. *)
FallFrom_NoFall(g, column, row) == row

(* Variant: the piece always lands in the bottom row. *)
FallFrom_ToBottom(g, column, row) == n_rows - 1

(* Variant: the loop tests the cell the piece is in, not the one below. *)
RECURSIVE FallFrom_OntoPiece(_, _, _)
FallFrom_OntoPiece(g, column, row) ==
    IF row + 1 < n_rows /\ g[row][column] = 0
    THEN FallFrom_OntoPiece(g, column, row + 1)
    ELSE row

(* Lines 76-82: the piece falls from `row` while the cell below is inside  *)
(* the grid and empty; the result is the row where it stops.               *)
RECURSIVE FallFrom(_, _, _)
FallFrom(g, column, row) ==
    IF row + 1 < n_rows /\ g[row + 1][column] = 0
    THEN FallFrom(g, column, row + 1)
    ELSE row

(* Line 81: next_grid[row, column] = player_id, written into the array. *)
Dropped(g, player_id, column) ==
    [g EXCEPT ![FallFrom(g, column, 0)][column] = player_id]

(* The record of a call; returned is the board make_move returned, as it   *)
(* was when it was returned (all zeros when nothing was returned).         *)
Call(op, player_id, column, imaginary, outcome, pre) ==
    [op |-> op, player_id |-> player_id, column |-> column,
     imaginary |-> imaginary, outcome |-> outcome, pre |-> pre,
     valid |-> <<>>, won |-> FALSE, returned |-> Zeros]

MoveCall(player_id, column, imaginary, outcome, returned) ==
    [Call("make_move", player_id, column, imaginary, outcome, grid)
        EXCEPT !.returned = returned]

make_move(player_id, column, imaginary) ==
    IF ~InRange(column, n_columns)
    THEN \* self.grid[0, column] raises IndexError at line 73
         /\ last' = MoveCall(player_id, column, imaginary, "IndexError", Zeros)
         /\ UNCHANGED <<grid, ret, other>>
    ELSE IF ColumnFull(grid, Index(column, n_columns))
    THEN \* line 74
         /\ last' = MoveCall(player_id, column, imaginary, "ValueError", Zeros)
         /\ UNCHANGED <<grid, ret, other>>
    ELSE \* Line 70, next_grid = self.grid, binds a second name to the
         \* SAME array (no copy is made), so the write of line 81 lands in
         \* the array self.grid refers to whatever `imaginary` is; line 85
         \* rebinds self.grid to the array it already refers to, and line
         \* 87 hands that array to the caller.
         LET next_grid == Dropped(grid, player_id, Index(column, n_columns))
         IN  /\ grid' = next_grid
             /\ ret' = "self.grid"
             /\ other' = Zeros
             /\ last' = MoveCall(player_id, column, imaginary, "ok", next_grid)

(***************************************************************************)
(* Connect4.get_valid_moves                                                *)
(***************************************************************************)
(* Variant: the loop stops one column early. *)
RECURSIVE ValidColumns_SkipLast(_, _)
ValidColumns_SkipLast(g, column) ==
    IF column >= n_columns - 1
    THEN <<>>
    ELSE (IF g[0][column] = 0 THEN <<column>> ELSE <<>>)
             \o ValidColumns_SkipLast(g, column + 1)

(* Variant: the loop looks at the bottom row instead of the top row. *)
RECURSIVE ValidColumns_BottomRow(_, _)
ValidColumns_BottomRow(g, column) ==
    IF column >= n_columns
    THEN <<>>
    ELSE (IF g[n_rows - 1][column] = 0 THEN <<column>> ELSE <<>>)
             \o ValidColumns_BottomRow(g, column + 1)

RECURSIVE ValidColumns(_, _)
ValidColumns(g, column) ==
    IF column >= n_columns
    THEN <<>>
    ELSE (IF g[0][column] = 0 THEN <<column>> ELSE <<>>)
             \o ValidColumns(g, column + 1)

get_valid_moves ==
    /\ last' = [Call("get_valid_moves", 0, 0, FALSE, "ok", grid)
                    EXCEPT !.valid = ValidColumns(grid, 0)]
    /\ UNCHANGED <<grid, ret, other>>

(***************************************************************************)
(* Connect4.check_win                                                      *)
(***************************************************************************)
Shape0(a) == Cardinality(DOMAIN a)

Shape1(a) == Cardinality(DOMAIN a[0])

RECURSIVE SumTo(_, _)
SumTo(f, n) == IF n < 0 THEN 0 ELSE f[n] + SumTo(f, n - 1)

(* Line 104: self.grid == player_id, True counted as 1. *)
player_pieces(g, player_id) ==
    [r \in DOMAIN g |-> [c \in DOMAIN g[r] |-> IF g[r][c] = player_id THEN 1 ELSE 0]]

(* scipy.signal.convolve2d(in1, in2, mode="full"): the output has shape    *)
(* (R + KR - 1, C + KC - 1) and out[i, j] is the sum, over the kernel      *)
(* cells (a, b) for which (i - a, j - b) is a cell of in1, of              *)
(* in1[i - a, j - b] * in2[a, b]  (zero padding outside the input).        *)
convolve2d(in1, in2) ==
    LET R == Shape0(in1)
        C == Shape1(in1)
        KR == Shape0(in2)
        KC == Shape1(in2)
    IN  [i \in 0 .. R + KR - 2 |->
            [j \in 0 .. C + KC - 2 |->
                SumTo([a \in 0 .. KR - 1 |->
                          SumTo([b \in 0 .. KC - 1 |->
                                    IF /\ i - a >= 0 /\ i - a < R
                                       /\ j - b >= 0 /\ j - b < C
                                    THEN in1[i - a][j - b] * in2[a][b]
                                    ELSE 0],
                                KC - 1)],
                      KR - 1)]]

(* Variant: the threshold is one too low. *)
AnyAtLeast_OneLess(win_mask, streak) ==
    \E i \in DOMAIN win_mask : \E j \in DOMAIN win_mask[i] : win_mask[i][j] >= streak - 1

(* Line 109: np.any(win_mask >= self.win_streak) *)
AnyAtLeast(win_mask, streak) ==
    \E i \in DOMAIN win_mask : \E j \in DOMAIN win_mask[i] : win_mask[i][j] >= streak

(* Lines 105-114: the kernels are tried in order, stopping at a win. *)
RECURSIVE HasWonFrom(_, _, _)
HasWonFrom(g, player_id, k) ==
    LET win_mask == convolve2d(player_pieces(g, player_id), win_kernels[k])
        has_won == AnyAtLeast(win_mask, win_streak)
    IN  IF has_won \/ k = Len(win_kernels)
        THEN has_won
        ELSE HasWonFrom(g, player_id, k + 1)

HasWon(g, player_id) == HasWonFrom(g, player_id, 1)

check_win(player_id) ==
    /\ last' = [Call("check_win", player_id, 0, FALSE, "ok", grid)
                    EXCEPT !.won = HasWon(grid, player_id)]
    /\ UNCHANGED <<grid, ret, other>>

(***************************************************************************)
(* Connect4.reset: self.grid = np.zeros(...) binds self.grid to a NEW      *)
(* array; an array the caller still holds keeps its contents.              *)
(***************************************************************************)
(* Variant: the new array is bound to a local name, not to self.grid. *)
reset_Local ==
    /\ last' = Call("reset", 0, 0, FALSE, "ok", grid)
    /\ UNCHANGED <<grid, ret, other>>

reset ==
    /\ grid' = Zeros
    /\ ret' = IF ret = "None" THEN "None" ELSE "other"
    /\ other' = Returned
    /\ last' = Call("reset", 0, 0, FALSE, "ok", grid)

(***************************************************************************)
(* The demo loop of the __main__ block (lines 142-167).  pc names the line *)
(* the loop is at; "l167" is the normal end (GAME OVER) and "error" the    *)
(* end by an exception nothing catches.  print_grid only prints.           *)
(***************************************************************************)
DemoLines == {"l147", "l150", "l153", "l158", "l159", "l163", "l167", "error"}

(* Line 147: A_s = game.get_valid_moves() *)
PlayerLooks ==
    /\ pc = "l147"
    /\ get_valid_moves
    /\ A_s' = last'.valid
    /\ pc' = "l150"

(* Lines 149-150: a = int(input(...)); game.make_move(1, a).  The loop has *)
(* no try/except: an exception of make_move ends the program.              *)
PlayerMoves(a) ==
    /\ pc = "l150"
    /\ make_move(1, a, FALSE)
    /\ pc' = IF last'.outcome = "ok" THEN "l153" ELSE "error"
    /\ UNCHANGED A_s

(* Lines 153-155: if game.check_win(1): break *)
PlayerWinCheck ==
    /\ pc = "l153"
    /\ check_win(1)
    /\ pc' = IF last'.won THEN "l167" ELSE "l158"
    /\ UNCHANGED A_s

(* Variant: the opponent chooses from the list of line 147. *)
OpponentLooks_Stale ==
    /\ pc = "l158"
    /\ pc' = "l159"
    /\ UNCHANGED <<grid, ret, other, last, A_s>>

(* Line 158: A_s = game.get_valid_moves() *)
OpponentLooks ==
    /\ pc = "l158"
    /\ get_valid_moves
    /\ A_s' = last'.valid
    /\ pc' = "l159"

(* Lines 159-160: a_id = np.random.randint(len(A_s)), which raises         *)
(* ValueError when the list is empty; game.make_move(2, A_s[a_id]).        *)
OpponentMoves ==
    /\ pc = "l159"
    /\ IF Len(A_s) = 0
       THEN /\ pc' = "error"
            /\ last' = Call("randint", 2, 0, FALSE, "ValueError", grid)
            /\ UNCHANGED <<grid, ret, other, A_s>>
       ELSE /\ \E a_id \in 0 .. Len(A_s) - 1 : make_move(2, A_s[a_id + 1], FALSE)
            /\ pc' = IF last'.outcome = "ok" THEN "l163" ELSE "error"
            /\ UNCHANGED A_s

(* Lines 163-165: if game.check_win(2): break *)
OpponentWinCheck ==
    /\ pc = "l163"
    /\ check_win(2)
    /\ pc' = IF last'.won THEN "l167" ELSE "l147"
    /\ UNCHANGED A_s

(***************************************************************************)
(* Specifications                                                          *)
(***************************************************************************)
NoCall == Call("init", 0, 0, FALSE, "ok", Zeros)

(* Connect4(): an all-empty array, nothing returned yet. *)
Init ==
    /\ grid = Zeros
    /\ ret = "None"
    /\ other = Zeros
    /\ last = NoCall
    /\ pc = "engine"
    /\ A_s = <<>>

(* The engine driven by any caller: moves and resets from the empty board. *)
Next ==
    \/ /\ \E player_id \in Players, column \in ColumnArgs, imaginary \in BOOLEAN :
             make_move(player_id, column, imaginary)
       /\ UNCHANGED <<pc, A_s>>
    \/ /\ reset
       /\ UNCHANGED <<pc, A_s>>

Spec == Init /\ [][Next]_vars

(* A game without reset: moves only, from the empty board. *)
NextGame ==
    /\ \E player_id \in Players, column \in ColumnArgs, imaginary \in BOOLEAN :
          make_move(player_id, column, imaginary)
    /\ UNCHANGED <<pc, A_s>>

SpecGame == Init /\ [][NextGame]_vars

(* The queries as functions of the board: every board, reachable or not.  *)
(* They change no state, so each is applied once to each board.            *)
InitAny ==
    /\ grid \in Boards
    /\ ret = "None"
    /\ other = Zeros
    /\ last = [NoCall EXCEPT !.pre = grid]
    /\ pc = "engine"
    /\ A_s = <<>>

NextValid == last.op = "init" /\ get_valid_moves /\ UNCHANGED <<pc, A_s>>

SpecValid == InitAny /\ [][NextValid]_vars

NextWin ==
    /\ last.op = "init"
    /\ \E player_id \in PlayerIds : check_win(player_id)
    /\ UNCHANGED <<pc, A_s>>

SpecWin == InitAny /\ [][NextWin]_vars

(* The demo loop: game = Connect4(), then the while loop; the human may    *)
(* type any of the column arguments.                                       *)
InitDemo ==
    /\ grid = Zeros
    /\ ret = "None"
    /\ other = Zeros
    /\ last = NoCall
    /\ pc = "l147"
    /\ A_s = <<>>

NextDemo ==
    \/ PlayerLooks
    \/ \E a \in ColumnArgs : PlayerMoves(a)
    \/ PlayerWinCheck
    \/ OpponentLooks
    \/ OpponentMoves
    \/ OpponentWinCheck

SpecDemo == InitDemo /\ [][NextDemo]_vars

(* One make_move on every board, reachable or not. *)
NextDrop ==
    /\ last.op = "init"
    /\ \E player_id \in Players, column \in ColumnArgs, imaginary \in BOOLEAN :
          make_move(player_id, column, imaginary)
    /\ UNCHANGED <<pc, A_s>>

SpecDrop == InitAny /\ [][NextDrop]_vars

TypeOK ==
    /\ grid \in Boards
    /\ ret \in RetKinds
    /\ other \in Boards
    /\ ret # "other" => other = Zeros
    /\ pc \in DemoLines \cup {"engine"}
    /\ \A i \in DOMAIN A_s : A_s[i] \in Cols

(***************************************************************************)
(* Properties                                                              *)
(***************************************************************************)

(* What the last call was. *)
Moved == last.op = "make_move" /\ last.outcome = "ok"

(* The cells in which two boards differ. *)
Diff(g1, g2) == {rc \in Rows \X Cols : g1[rc[1]][rc[2]] # g2[rc[1]][rc[2]]}

Full(g) == \A r \in Rows : \A c \in Cols : g[r][c] # 0

(* The empty cell of the column with the largest row index. *)
LowestEmpty(g, c) ==
    CHOOSE r \in Rows :
        /\ g[r][c] = 0
        /\ \A r2 \in Rows : g[r2][c] = 0 => r2 <= r

(* A straight line of win_streak consecutive in-bounds cells, all of       *)
(* player p: along a row, a column, the down-right or the down-left        *)
(* diagonal.                                                               *)
Directions == {<<0, 1>>, <<1, 0>>, <<1, 1>>, <<1, 0 - 1>>}

HasLine(g, p) ==
    \E r \in Rows : \E c \in Cols : \E d \in Directions :
        \A k \in 0 .. win_streak - 1 :
            /\ r + k * d[1] \in Rows
            /\ c + k * d[2] \in Cols
            /\ g[r + k * d[1]][c + k * d[2]] = p

(* C1: a successful make_move with imaginary=True on a column 0..n_columns-1
   leaves the stored board cell-for-cell as it was before the call, so
   get_valid_moves and check_win answer as before. *)
C1_SimulateKeepsBoard ==
    (Moved /\ last.imaginary /\ last.column \in Cols) =>
        /\ Board = last.pre
        /\ ValidColumns(Board, 0) = ValidColumns(last.pre, 0)
        /\ \A p \in Players : HasWon(Board, p) = HasWon(last.pre, p)

(* C2: gravity. In every reachable state no empty cell of the stored board
   lies below an occupied cell of the same column. *)
C2_Gravity ==
    \A c \in Cols : \A r \in Rows :
        (r + 1 \in Rows /\ Board[r][c] # 0) => Board[r + 1][c] # 0

C2_Witness ==
    /\ Moved
    /\ \E c \in Cols : Board[0][c] # 0 /\ last.pre[0][c] = 0
    /\ \E c \in Cols : Board[n_rows - 1][c] = 0

(* C3: a successful make_move with imaginary=False on a column
   0..n_columns-1 changes exactly one cell of the stored board: the empty
   cell of that column with the largest row index gets the player's mark,
   and the board returned is the new stored board. *)
C3_CommitOneCell ==
    (Moved /\ ~last.imaginary /\ last.column \in Cols) =>
        LET row == LowestEmpty(last.pre, last.column)
        IN  /\ last.pre[row][last.column] = 0
            /\ Board = [last.pre EXCEPT ![row][last.column] = last.player_id]
            /\ Diff(Board, last.pre) = {<<row, last.column>>}
            /\ ret # "None"
            /\ Returned = Board

C3_Witness ==
    /\ Moved /\ ~last.imaginary /\ last.column \in Cols
    /\ last.pre[n_rows - 1][last.column] # 0
    /\ \E c \in Cols : c # last.column /\ last.pre[n_rows - 1][c] # 0

(* C4: make_move on a column 0..n_columns-1 whose top cell is occupied ends
   in the ValueError of line 74 (the IllegalMove error), in either mode and
   for either player, and the stored board is what it was before the call. *)
C4_FullColumnRejected ==
    (last.op = "make_move" /\ last.column \in Cols
        /\ last.pre[0][last.column] # 0) =>
        /\ last.outcome = "ValueError"
        /\ Board = last.pre

C4_Witness ==
    /\ last.op = "make_move" /\ last.column \in Cols
    /\ last.pre[0][last.column] # 0
    /\ last.outcome = "ValueError"
    /\ ~Full(last.pre)

(* C5: make_move with a column index outside 0..n_columns-1, negative ones
   included, ends in an error and changes no cell of the stored board. *)
C5_OutOfRangeRejected ==
    (last.op = "make_move" /\ last.column \notin Cols) =>
        /\ last.outcome # "ok"
        /\ Board = last.pre

(* C6: on every board get_valid_moves returns exactly the columns
   0..n_columns-1 whose row-0 cell is empty, each once, in strictly
   ascending order. *)
C6_ValidMovesExact ==
    last.op = "get_valid_moves" =>
        /\ \A i \in DOMAIN last.valid : last.valid[i] \in Cols
        /\ \A c \in Cols :
              (\E i \in DOMAIN last.valid : last.valid[i] = c) <=> Board[0][c] = 0
        /\ \A i \in DOMAIN last.valid : \A j \in DOMAIN last.valid :
              i < j => last.valid[i] < last.valid[j]

C6_Witness ==
    /\ last.op = "get_valid_moves"
    /\ Board[0][0] # 0
    /\ Len(last.valid) = n_columns - 1
    /\ last.valid[Len(last.valid)] = n_columns - 1

(* C7: in every state reachable from the empty board, get_valid_moves
   returns the empty list if and only if every cell is occupied. *)
C7_NoMovesIffFull ==
    (ValidColumns(Board, 0) = <<>>) <=> Full(Board)

C7_Witness ==
    /\ Moved
    /\ ValidColumns(Board, 0) = <<>>
    /\ Full(Board)

(* C8: check_win is complete. On every board, for a player 1 or 2 that has
   win_streak consecutive in-bounds cells along a row, a column or a
   diagonal, check_win returns true. *)
C8_WinComplete ==
    (last.op = "check_win" /\ last.player_id \in Players
        /\ HasLine(Board, last.player_id)) => last.won

(* The down-left diagonal that starts in the bottom-left corner, alone. *)
C8_Witness ==
    /\ last.op = "check_win" /\ last.player_id = 1 /\ last.won
    /\ \A r \in Rows : \A c \in Cols :
          Board[r][c] = (IF r = n_rows - 1 - c THEN 1 ELSE 0)

(* C9: check_win is sound. On every board, for a player 1 or 2, check_win
   returns true only when some straight line of win_streak consecutive
   in-bounds cells is entirely that player's. *)
C9_WinSound ==
    (last.op = "check_win" /\ last.player_id \in Players /\ last.won) =>
        HasLine(Board, last.player_id)

(* The player's pieces are next to each other only across the end of a
   row; the other player has a line. *)
C9_Witness ==
    /\ last.op = "check_win" /\ last.player_id = 1 /\ ~last.won
    /\ Board[0][n_columns - 1] = 1 /\ Board[1][0] = 1
    /\ HasLine(Board, 2)

(* C10: check_win called with the empty id 0 returns false on every
   reachable board, that is (C2, and any player may move at any time) on
   every board that obeys gravity. *)
C10_EmptyIdNeverWins ==
    (last.op = "check_win" /\ last.player_id = 0 /\ C2_Gravity) => ~last.won


(* check_win on the all-empty board of a fresh engine, for either player. *)
FreshBoardWon == \E p \in Players : HasWon(Zeros, p)

(* The list of all the columns, in order. *)
AllColumns == [i \in 1 .. n_columns |-> i - 1]

(* C11: after reset, whatever came before, the stored board is the
   all-empty board of a fresh engine, get_valid_moves returns every column
   and check_win is false for both players; a second reset leaves that
   board as it is. *)
C11_ResetGivesFreshBoard ==
    last.op = "reset" =>
        /\ Board = Zeros
        /\ ValidColumns(Board, 0) = AllColumns
        /\ ~FreshBoardWon

C11_Witness ==
    /\ last.op = "reset"
    /\ Full(last.pre)
    /\ \E p \in Players : HasLine(last.pre, p)


(* C12: simulate/commit equivalence. When make_move with imaginary=False
   directly follows a successful make_move with imaginary=True for the same
   player and the same column 0..n_columns-1, it succeeds too, and the board
   it returns and stores is cell-for-cell the board the simulate call
   returned, as that board was when it was returned. *)
C12_SimulateCommitEqual ==
    [][(/\ Moved /\ last.imaginary /\ last.column \in Cols
        /\ last'.op = "make_move" /\ ~last'.imaginary
        /\ last'.player_id = last.player_id /\ last'.column = last.column) =>
           /\ last'.outcome = "ok"
           /\ last'.returned = last.returned
           /\ grid' = last.returned]_vars

(* The contents, after a step, of the array the caller held before it: the
   array is self.grid's unless reset has rebound self.grid; an array that
   is no longer referenced is never written. *)
HeldAfterStep ==
    IF ret = "self.grid"
    THEN (IF last'.op = "reset" THEN other' ELSE grid')
    ELSE (IF ret' = "other" THEN other' ELSE other)

(* C14: a board returned by make_move is an independent snapshot. No later
   make_move or reset changes the contents of the array the caller was
   handed, and the board a make_move with imaginary=True returns is not the
   array self.grid refers to. *)
C14_ReturnedIsSnapshot ==
    [][/\ ret # "None" => HeldAfterStep = Returned
       /\ (last'.op = "make_move" /\ last'.outcome = "ok" /\ last'.imaginary)
             => ret' # "self.grid"]_vars

(* C15: make_move never overwrites a piece. From any board, obeying gravity
   or not, a successful make_move changes exactly one cell, that cell was
   empty before the call, and every occupied cell keeps its mark. *)
C15_NeverOverwrites ==
    Moved =>
        /\ Cardinality(Diff(Board, last.pre)) = 1
        /\ \A rc \in Diff(Board, last.pre) : last.pre[rc[1]][rc[2]] = 0
        /\ \A r \in Rows : \A c \in Cols :
              last.pre[r][c] # 0 => Board[r][c] = last.pre[r][c]

(* The move went into a column that already held a piece, on a board with
   an empty cell under a piece. *)
C15_Witness ==
    /\ Moved
    /\ \E r \in Rows : last.pre[r][Index(last.column, n_columns)] # 0
    /\ \E c \in Cols : \E r \in Rows :
          r + 1 \in Rows /\ last.pre[r][c] # 0 /\ last.pre[r + 1][c] = 0


(* C16: a win is permanent until reset. If check_win is true for player 1
   or 2 on the stored board, it is still true after any successful
   make_move, whoever moves and wherever. *)
C16_WinStays ==
    Moved => \A p \in Players : HasWon(last.pre, p) => HasWon(Board, p)

(* The other player moved on a board the player had already won. *)
C16_Witness ==
    /\ Moved
    /\ \E p \in Players :
          /\ last.player_id # p
          /\ HasWon(last.pre, p)
          /\ HasWon(Board, p)


(* C13: in the demo loop, when the human enters an illegal move (a column
   outside 0..n_columns-1 or a column whose top cell is occupied) the loop
   asks again: the board is unchanged, it is still the human's turn and the
   loop has not ended with an error. *)
C13_IllegalMoveReprompts ==
    (/\ last.op = "make_move" /\ last.player_id = 1
     /\ (last.column \notin Cols \/ last.pre[0][last.column] # 0)) =>
        /\ pc \in {"l147", "l150"}
        /\ Board = last.pre


(* C17: in the demo loop on a board with an even number of cells, the list
   of legal moves is not empty whenever the random opponent is about to
   choose, and the opponent's make_move never ends in an error. *)
C17_OpponentCanMove ==
    (n_rows * n_columns) % 2 = 0 =>
        /\ pc = "l159" => Len(A_s) > 0
        /\ last.player_id = 2 => last.outcome = "ok"

(* The opponent has moved, choosing from a list that lacked a column. *)
C17_Witness ==
    /\ (n_rows * n_columns) % 2 = 0
    /\ pc = "l163"
    /\ Moved /\ last.player_id = 2
    /\ Len(A_s) < n_columns

====
